---- MODULE Spec2Model ----
(***************************************************************************)
(* Model of the service registry of MyBot4QQ: ConsulClient                 *)
(* (src/src/common/consul.py) talking to a Consul backend (KV store,       *)
(* service catalog, health view).                                          *)
(*                                                                         *)
(* Registry objects are the ConsulClient instances; tasks are the          *)
(* coroutines executing register_service() / deregister_service() on a     *)
(* registry.  A backend call that the code awaits through run_in_executor  *)
(* is one step on the backend; the coroutine segment that follows it, up   *)
(* to the next awaited backend call, is taken in the same step when that   *)
(* segment makes no backend call of its own.  The catalog registration of  *)
(* register_service() is a synchronous call inside a coroutine segment and *)
(* is therefore a step separate from the awaited KV get / put before it.   *)
(***************************************************************************)
EXTENDS Naturals, Integers, Sequences, FiniteSets, TLC

\* ---------------------------------------------------------------- bounds
NumRegs   == 2      \* registry objects, and tasks calling them
MaxTime   == 1      \* int(time.time()) ranges over 0..MaxTime
MaxFaults == 3      \* backend failures / health flips injected per behaviour
MaxStops  == 2      \* calls of stop() after the first one
MaxLen    == 3      \* characters of a configured base path / a service name
MaxChecks == 4      \* iterations of the health-check loop
MaxOps    == 2      \* calls of the sender per behaviour
MaxTargets == 2     \* length of the target list of a batch

\* ------------------------------------------------------ program constants
max_retries_four == 3 + 1        \* variant: one attempt more
max_retries == 3                 \* consul.py:186 and consul.py:260
max_failures == 3                \* service.py:171
sender_max_retries_four == 3 + 1 \* variant: one attempt more
sender_max_retries == 3          \* sender.py:68  self._max_retries = 3
BasePort    == 50053             \* ports of the registries: BasePort + r

Regs  == 1..NumRegs
Tasks == 1..NumRegs
Names == {"svc.a"}

None == "None"                   \* Python None for the string fields
NoId == <<>>                     \* Python None for service_id

VARIABLES
    registered,      \* ConsulClient.registered, per registry
    service_id,      \* ConsulClient.service_id
    service_name,    \* ConsulClient.service_name
    kv_path,         \* ConsulClient.kv_path
    kv,              \* backend KV store: a function path -> record, DOMAIN = present keys
    catalog,         \* backend catalog: set of registered service ids
    passing,         \* subset of catalog whose health check is passing
    now,             \* int(time.time())
    owner,           \* the registry object each task calls
    pc,              \* position of each task
    loc,             \* locals of the running call of each task
    ret,             \* value returned by the last call of each task
    calls,           \* backend calls made by the running call, in order
    faults,          \* number of failures injected so far
    svc,             \* QQBotMicroservice: the service that owns registry 1
    client,          \* a ConsulClient built from a configured base path
    hc,              \* QQBotMicroservice._health_check_task
    snd              \* QQBotSender and the module globals of sender.py

vars == <<registered, service_id, service_name, kv_path, kv, catalog, passing,
          now, owner, pc, loc, ret, calls, faults, svc, client, hc, snd>>

obj     == <<registered, service_id, service_name, kv_path>>
backend == <<kv, catalog, passing>>
aux     == <<client, hc, snd>>

\* ------------------------------------------------------------- helpers
kv_base_path == "echo_wing/"                       \* consul.py:35, :54

KvPath(name) == kv_base_path \o name               \* consul.py:81

Port(r) == BasePort + r

\* consul.py:96  f"{service_name}-{hostname}-{pid}-{port}-{timestamp}";
\* hostname and pid are the same for every registry of the model.
MakeServiceId(name, port, timestamp) == <<name, port, timestamp>>

IdName(id) == id[1]

\* consul.py:15-22: created_at and updated_at each default to their own
\* int(time.time()), read one after the other
KVServiceMeta(name, created, updated) ==
    [ServerName |-> name, created_at |-> created, updated_at |-> updated]

\* the clock at a second read that follows a read of t: the second may have turned
ClockAfter(t) == {t} \cup {u \in {t + 1} : u <= MaxTime}

\* slept, kv_slept: the delays asyncio.sleep was called with, in order, by the
\* deregister loop and by the delete loop of the running call
InitLoc == [i |-> 0, service_deregistered |-> TRUE, kv_exists |-> FALSE,
            data |-> KVServiceMeta("", 0, 0), active_count |-> 0, name |-> None,
            slept |-> <<>>, kv_slept |-> <<>>]

CanFail == faults < MaxFaults

\* task t is inside a call: between its first step and its return
InCall(t) == pc[t] \notin {"idle", "r_done", "d_done", "d_cancelled"}

Log(t, c) == calls' = [calls EXCEPT ![t] = Append(@, c)]

\* ---------------------------------------------------------------- Init
InitRegistryVars ==
    /\ registered   = [r \in Regs |-> FALSE]
    /\ service_id   = [r \in Regs |-> NoId]
    /\ service_name = [r \in Regs |-> None]
    /\ kv_path      = [r \in Regs |-> None]
    /\ kv           = <<>>
    /\ catalog      = {}
    /\ passing      = {}
    /\ now          = 0
    /\ pc           = [t \in Tasks |-> "idle"]
    /\ loc          = [t \in Tasks |-> InitLoc]
    /\ ret          = [t \in Tasks |-> TRUE]
    /\ calls        = [t \in Tasks |-> <<>>]
    /\ faults       = 0

\* consul.py:30-58: a client before __init__ has run, on the default base path
ClientNew(base) ==
    [st |-> "new", base |-> base, kv_base_path |-> <<>>,
     service_name |-> <<>>, kv_path |-> <<>>]

\* service.py:170-171: check_count = 0; the sender is connected by start()
HcNew ==
    [pc |-> "sleep", check_count |-> 0, connected |-> TRUE,
     outcomes |-> <<>>, reconnects |-> 0]

\* sender.py:18-22, :60-68: the module globals and a new QQBotSender;
\* op, how, sends, error_before and ops record the running call
SndNew ==
    [pc |-> "idle", op |-> "none", connected |-> FALSE, error_count |-> 0,
     global_api |-> FALSE, global_valid |-> FALSE,
     how |-> "none", targets |-> <<>>, sends |-> <<>>,
     success_count |-> 0, failure_count |-> 0, error_before |-> 0,
     result |-> [success |-> FALSE, total_count |-> 0,
                 success_count |-> 0, failure_count |-> 0],
     ops |-> 0]

InitRegistry ==
    /\ InitRegistryVars
    /\ client = ClientNew(<<>>)
    /\ hc = HcNew
    /\ snd = SndNew

\* service.py:23-30 QQBotMicroservice.__init__; consul_host: cfg.consul.host is set
SvcNew(consul_host) ==
    [st |-> "new", consul_host |-> consul_host, consul_client |-> FALSE,
     sender |-> FALSE, grpc_server |-> FALSE, tasks |-> FALSE,
     shutting_down |-> FALSE, consul_success |-> FALSE, log |-> <<>>,
     returns |-> <<>>]

InitCommon == InitRegistry /\ svc = SvcNew(TRUE)

Init == InitCommon /\ owner = [t \in Tasks |-> t]

\* ------------------------------------------------- register_service()
\* variant: the guard is missing
AlreadyRegistered_never(o) == FALSE

\* consul.py:76  the idempotence guard
AlreadyRegistered(o) == registered[o]

\* consul.py:76-81: guard, then cache service_name and kv_path
RegisterCall(t, name) ==
    LET o == owner[t] IN
    /\ pc[t] = "idle"
    /\ calls' = [calls EXCEPT ![t] = <<>>]
    /\ IF AlreadyRegistered(o)
       THEN /\ pc'  = [pc EXCEPT ![t] = "r_done"]
            /\ ret' = [ret EXCEPT ![t] = TRUE]
            /\ loc' = [loc EXCEPT ![t] = [InitLoc EXCEPT !.name = name]]
            /\ UNCHANGED <<service_name, kv_path>>
       ELSE /\ service_name' = [service_name EXCEPT ![o] = name]
            /\ kv_path'      = [kv_path EXCEPT ![o] = KvPath(name)]
            /\ pc'  = [pc EXCEPT ![t] = "r_get"]
            /\ loc' = [loc EXCEPT ![t] = [InitLoc EXCEPT !.name = name]]
            /\ UNCHANGED ret
    /\ UNCHANGED <<registered, service_id, backend, now, owner, aux, svc, faults>>

\* consul.py:298-311 _check_kv_exists: the awaited kv.get; an exception gives False
RegKvGet(t) ==
    LET o == owner[t] IN
    /\ pc[t] = "r_get"
    /\ \/ /\ loc' = [loc EXCEPT ![t].kv_exists = (kv_path[o] \in DOMAIN kv)]
          /\ Log(t, "kv_get")
          /\ UNCHANGED faults
       \/ /\ CanFail
          /\ faults' = faults + 1
          /\ loc' = [loc EXCEPT ![t].kv_exists = FALSE]
          /\ Log(t, "kv_get_raise")
    /\ pc' = [pc EXCEPT ![t] = "r_got"]
    /\ UNCHANGED <<obj, backend, now, owner, aux, svc, ret>>

\* variant: the flag is set before the catalog call is known to have succeeded
RegisteredAfter_early(o, raised) == TRUE

\* consul.py:121-137: registered is set at line 131, which an exception skips
RegisteredAfter(o, raised) == IF raised THEN registered[o] ELSE TRUE

\* consul.py:92-137: build the id, register in the catalog (a synchronous call),
\* set registered; an exception returns False.
CatalogRegister(t) ==
    LET o  == owner[t]
        id == MakeServiceId(loc[t].name, Port(o), now)
    IN
    /\ service_id' = [service_id EXCEPT ![o] = id]
    /\ \/ /\ catalog' = catalog \cup {id}
          /\ passing' = passing \cup {id}
          /\ registered' = [registered EXCEPT ![o] = RegisteredAfter(o, FALSE)]
          /\ ret' = [ret EXCEPT ![t] = TRUE]
          /\ Log(t, "catalog_register")
          /\ UNCHANGED faults
       \/ /\ CanFail
          /\ faults' = faults + 1
          /\ ret' = [ret EXCEPT ![t] = FALSE]
          /\ Log(t, "catalog_register_raise")
          /\ registered' = [registered EXCEPT ![o] = RegisteredAfter(o, TRUE)]
          /\ UNCHANGED <<catalog, passing>>
    /\ pc' = [pc EXCEPT ![t] = "r_done"]

\* consul.py:86-90: the coroutine resumes with kv_exists
RegAfterGet(t) ==
    /\ pc[t] = "r_got"
    /\ IF ~loc[t].kv_exists
       THEN \* consul.py:317-325: the record is built and serialised before the put is awaited
            /\ pc'  = [pc EXCEPT ![t] = "r_put"]
            /\ \E updated \in ClockAfter(now) :
                 /\ loc' = [loc EXCEPT ![t].data =
                               KVServiceMeta(service_name[owner[t]], now, updated)]
                 /\ now' = updated
            /\ UNCHANGED <<registered, service_id, catalog, passing, ret, calls, faults>>
       ELSE /\ CatalogRegister(t)
            /\ UNCHANGED <<loc, now>>
    /\ UNCHANGED <<service_name, kv_path, kv, owner, aux, svc>>

\* consul.py:326-340 _register_kv: the awaited kv.put; its result is ignored by the caller
RegKvPut(t) ==
    LET o == owner[t] IN
    /\ pc[t] = "r_put"
    /\ \/ /\ kv' = (kv_path[o] :> loc[t].data) @@ kv
          /\ Log(t, "kv_put")
          /\ UNCHANGED faults
       \/ /\ CanFail
          /\ faults' = faults + 1
          /\ Log(t, "kv_put_fail")
          /\ UNCHANGED kv
    /\ pc' = [pc EXCEPT ![t] = "r_putted"]
    /\ UNCHANGED <<obj, catalog, passing, now, owner, aux, svc, loc, ret>>

RegAfterPut(t) ==
    /\ pc[t] = "r_putted"
    /\ CatalogRegister(t)
    /\ UNCHANGED <<service_name, kv_path, kv, now, owner, aux, svc, loc>>

\* ----------------------------------------------- deregister_service()
\* variant: the reset forgets service_id
reset_state_keeps_id(o) == [registered |-> FALSE, service_id |-> service_id[o],
                            service_name |-> None, kv_path |-> None]

\* consul.py:342-347 _reset_state
reset_state(o) == [registered |-> FALSE, service_id |-> NoId,
                service_name |-> None, kv_path |-> None]

\* variant: a KV cleanup that used up its attempts turns the result to false
deregister_result_kv(t, sd) == sd /\ ~(pc[t] \in {"d_kvget", "d_kvdel"} /\ loc[t].i + 1 >= max_retries)

\* consul.py:177: the result is service_deregistered
deregister_result(t, sd) == sd

\* consul.py:173-177: reset the state and return service_deregistered
Finish(t, sd) ==
    LET o == owner[t] IN
    /\ registered'   = [registered EXCEPT ![o] = reset_state(o).registered]
    /\ service_id'   = [service_id EXCEPT ![o] = reset_state(o).service_id]
    /\ service_name' = [service_name EXCEPT ![o] = reset_state(o).service_name]
    /\ kv_path'      = [kv_path EXCEPT ![o] = reset_state(o).kv_path]
    /\ ret' = [ret EXCEPT ![t] = deregister_result(t, sd)]
    /\ pc'  = [pc EXCEPT ![t] = "d_done"]

\* variant: the check of the service_name is missing
HasServiceName_always(o) == TRUE

\* consul.py:160  if self.service_name
HasServiceName(o) == service_name[o] # None

\* variant: a failed catalog deregistration skips the instance check
CountNeeded_if_deregistered(o, sd) == HasServiceName(o) /\ sd

\* consul.py:155-160: the check depends on the service_name alone, not on
\* service_deregistered
CountNeeded(o, sd) == HasServiceName(o)

\* consul.py:159-171: with a service_name go on to the instance check,
\* without one skip the KV check and finish
ToCount(t, sd) ==
    IF CountNeeded(owner[t], sd)
    THEN /\ pc' = [pc EXCEPT ![t] = "d_count"]
         /\ UNCHANGED <<obj, ret>>
    ELSE Finish(t, sd)

\* variant: the registered flag is not looked at
MustDeregister_any_id(o) == service_id[o] # NoId

\* consul.py:152-154: deregister the own service only if registered
MustDeregister(o) == registered[o] /\ service_id[o] # NoId

DeregisterCall(t) ==
    LET o == owner[t] IN
    /\ pc[t] = "idle"
    /\ calls' = [calls EXCEPT ![t] = <<>>]
    /\ loc' = [loc EXCEPT ![t] = [InitLoc EXCEPT !.name = service_name[o]]]
    /\ IF MustDeregister(o)
       THEN /\ pc' = [pc EXCEPT ![t] = "d_dereg"]
            /\ UNCHANGED <<obj, ret>>
       ELSE ToCount(t, TRUE)
    /\ UNCHANGED <<backend, now, owner, aux, svc, faults>>

\* variant: the delay does not grow
Backoff_constant(i) == 1

\* consul.py:192, :267  await asyncio.sleep(i)
Backoff(i) == i

\* consul.py:190-192: the locals after the sleep that begins attempt i > 0 of
\* the deregister loop
Slept(l) == IF l.i > 0 THEN [l EXCEPT !.slept = Append(@, Backoff(l.i))] ELSE l

\* consul.py:265-267: the same for the delete loop
KvSlept(l) == IF l.i > 0 THEN [l EXCEPT !.kv_slept = Append(@, Backoff(l.i))] ELSE l

\* consul.py:184-207 _deregister_service_with_retry: one attempt of the loop,
\* with the sleep that begins it
DeregAttempt(t) ==
    LET o == owner[t]
        l == Slept(loc[t])
    IN
    /\ pc[t] = "d_dereg"
    /\ \/ /\ catalog' = catalog \ {service_id[o]}
          /\ passing' = passing \ {service_id[o]}
          /\ Log(t, "catalog_deregister")
          /\ loc' = [loc EXCEPT ![t] = [l EXCEPT !.service_deregistered = TRUE, !.i = 0]]
          /\ ToCount(t, TRUE)
          /\ UNCHANGED faults
       \/ /\ CanFail
          /\ faults' = faults + 1
          /\ Log(t, "catalog_deregister_raise")
          /\ UNCHANGED <<catalog, passing>>
          /\ IF loc[t].i + 1 < max_retries
             THEN /\ loc' = [loc EXCEPT ![t] = [l EXCEPT !.i = @ + 1]]
                  /\ UNCHANGED <<obj, pc, ret>>
             ELSE /\ loc' = [loc EXCEPT ![t] = [l EXCEPT !.service_deregistered = FALSE, !.i = 0]]
                  /\ ToCount(t, FALSE)
    /\ UNCHANGED <<kv, now, owner, aux, svc>>

\* health.service(service=name, passing=True): the passing instances of the name
QueryPassing(name) == {id \in passing : IdName(id) = name}

\* variant: the own instance is counted too
other_count_all(nodes, own) == Cardinality(nodes)

\* consul.py:238-248: count the nodes whose Service.ID is not the own id
RECURSIVE other_count(_, _)
other_count(nodes, own) ==
    IF nodes = {} THEN 0
    ELSE LET node == CHOOSE n \in nodes : TRUE
         IN (IF node # own THEN 1 ELSE 0) + other_count(nodes \ {node}, own)

\* variant: a query that raises counts as one other instance
count_on_error_one == 0 + 1

\* consul.py:250-252: a query that raises gives 0
count_on_error == 0

\* variants: the comparison is off by one, either way
has_other_instances_gt1(active_count) == active_count > 1

has_other_instances_ge0(active_count) == active_count >= 0

\* consul.py:217
has_other_instances(active_count) == active_count > 0

\* variant: the delete loop re-enters the catalog deregistration
KvLoopPc_deregister == "d_dereg"

\* consul.py:263: the delete loop begins (or begins again) with the kv.get
KvLoopPc == "d_kvget"

\* consul.py:161-169 with _has_other_instances and _get_active_instance_count
DeregCount(t) ==
    LET o == owner[t] IN
    /\ pc[t] = "d_count"
    /\ \E raised \in BOOLEAN :
         LET cnt == IF raised THEN count_on_error
                    ELSE other_count(QueryPassing(service_name[o]), service_id[o])
         IN
         /\ raised => CanFail
         /\ faults' = IF raised THEN faults + 1 ELSE faults
         /\ Log(t, IF raised THEN "health_query_raise" ELSE "health_query")
         /\ loc' = [loc EXCEPT ![t].active_count = cnt, ![t].i = 0]
         /\ IF has_other_instances(cnt)
            THEN /\ pc' = [pc EXCEPT ![t] = "d_count2"]
                 /\ UNCHANGED <<obj, ret>>
            ELSE IF kv_path[o] = None        \* consul.py:256-258
                 THEN Finish(t, loc[t].service_deregistered)
                 ELSE /\ pc' = [pc EXCEPT ![t] = KvLoopPc]
                      /\ UNCHANGED <<obj, ret>>
    /\ UNCHANGED <<backend, now, owner, aux, svc>>

\* consul.py:168: the second query, whose result is only logged
DeregCount2(t) ==
    LET o == owner[t] IN
    /\ pc[t] = "d_count2"
    /\ \E raised \in BOOLEAN :
         /\ raised => CanFail
         /\ faults' = IF raised THEN faults + 1 ELSE faults
         /\ Log(t, IF raised THEN "health_query_raise" ELSE "health_query")
         /\ loc' = [loc EXCEPT ![t].active_count =
                       IF raised THEN count_on_error
                       ELSE other_count(QueryPassing(service_name[o]), service_id[o])]
    /\ Finish(t, loc[t].service_deregistered)
    /\ UNCHANGED <<backend, now, owner, aux, svc>>

\* consul.py:263-296: a failed attempt of the delete loop
KvRetry(t, l) ==
    IF l.i + 1 < max_retries
    THEN /\ pc'  = [pc EXCEPT ![t] = KvLoopPc]
         /\ loc' = [loc EXCEPT ![t] = [l EXCEPT !.i = @ + 1]]
         /\ UNCHANGED <<obj, ret>>
    ELSE /\ loc' = [loc EXCEPT ![t] = l]
         /\ Finish(t, l.service_deregistered)

\* variant: the result of the get is not looked at
DataIsNone_never(o) == FALSE

\* consul.py:277  if data is None
DataIsNone(o) == kv_path[o] \notin DOMAIN kv

\* consul.py:265-279: the sleep that begins a later attempt, then the re-get
\* of the key before the delete
DeregKvGet(t) ==
    LET o == owner[t]
        l == KvSlept(loc[t])
    IN
    /\ pc[t] = "d_kvget"
    /\ \/ /\ UNCHANGED faults
          /\ IF ~DataIsNone(o)
             THEN /\ Log(t, "kv_get")
                  /\ pc' = [pc EXCEPT ![t] = "d_kvdel"]
                  /\ loc' = [loc EXCEPT ![t] = l]
                  /\ UNCHANGED <<obj, ret>>
             ELSE /\ Log(t, "kv_get_none")
                  /\ loc' = [loc EXCEPT ![t] = l]
                  /\ Finish(t, l.service_deregistered)
       \/ /\ CanFail
          /\ faults' = faults + 1
          /\ Log(t, "kv_get_raise")
          /\ KvRetry(t, l)
    /\ UNCHANGED <<backend, now, owner, aux, svc>>

\* variant: the delete leaves the key in the store
kv_delete_keeps(path) == kv

\* consul.py:282-285 client.kv.delete: the store without the key; deleting an
\* absent key changes nothing and succeeds
kv_delete(path) == [p \in DOMAIN kv \ {path} |-> kv[p]]

\* consul.py:281-294: the kv.delete; False or an exception fails the attempt
DeregKvDelete(t) ==
    LET o == owner[t] IN
    /\ pc[t] = "d_kvdel"
    /\ \/ /\ kv' = kv_delete(kv_path[o])
          /\ Log(t, "kv_delete")
          /\ loc' = loc
          /\ Finish(t, loc[t].service_deregistered)
          /\ UNCHANGED faults
       \/ /\ CanFail
          /\ faults' = faults + 1
          /\ Log(t, "kv_delete_fail")
          /\ KvRetry(t, loc[t])
          /\ UNCHANGED kv
    /\ UNCHANGED <<catalog, passing, now, owner, aux, svc>>

\* the caller takes the result of the call
Return(t) ==
    /\ pc[t] \in {"r_done", "d_done"}
    /\ pc'  = [pc EXCEPT ![t] = "idle"]
    /\ loc' = [loc EXCEPT ![t] = InitLoc]
    /\ ret' = [ret EXCEPT ![t] = TRUE]
    /\ calls' = [calls EXCEPT ![t] = <<>>]
    /\ UNCHANGED <<obj, backend, now, owner, aux, svc, faults>>

\* ---------------------------------------------------------- environment
\* the health check of a registered instance changes its status
HealthFlip(id) ==
    /\ id \in catalog
    /\ CanFail
    /\ faults' = faults + 1
    /\ passing' = IF id \in passing THEN passing \ {id} ELSE passing \cup {id}
    /\ UNCHANGED <<obj, kv, catalog, now, owner, aux, svc, pc, loc, ret, calls>>

Tick ==
    /\ now < MaxTime
    /\ now' = now + 1
    /\ UNCHANGED <<obj, backend, owner, aux, svc, pc, loc, ret, calls, faults>>

Next ==
    \/ \E t \in Tasks, n \in Names : RegisterCall(t, n)
    \/ \E t \in Tasks : RegKvGet(t)
    \/ \E t \in Tasks : RegAfterGet(t)
    \/ \E t \in Tasks : RegKvPut(t)
    \/ \E t \in Tasks : RegAfterPut(t)
    \/ \E t \in Tasks : DeregisterCall(t)
    \/ \E t \in Tasks : DeregAttempt(t)
    \/ \E t \in Tasks : DeregCount(t)
    \/ \E t \in Tasks : DeregCount2(t)
    \/ \E t \in Tasks : DeregKvGet(t)
    \/ \E t \in Tasks : DeregKvDelete(t)
    \/ \E t \in Tasks : Return(t)
    \/ \E id \in catalog : HealthFlip(id)
    \/ Tick

Spec == Init /\ [][Next]_vars

\* ------------------------------------------- re-entrant register_service()
\* two coroutines calling register_service() on the same registry object
InitReentrant == InitCommon /\ owner = [t \in Tasks |-> 1]

NextReentrant ==
    \/ \E t \in Tasks, n \in Names : RegisterCall(t, n)
    \/ \E t \in Tasks : RegKvGet(t)
    \/ \E t \in Tasks : RegAfterGet(t)
    \/ \E t \in Tasks : RegKvPut(t)
    \/ \E t \in Tasks : RegAfterPut(t)
    \/ \E t \in Tasks : Return(t)
    \/ Tick

SpecReentrant == InitReentrant /\ [][NextReentrant]_vars

\* --------------------------------------------------- calls one after another
\* the registries are called one at a time: a call starts when every other
\* call has returned to its caller
OthersQuiet(t) == \A u \in Tasks \ {t} : pc[u] = "idle"

NextSeq ==
    \/ \E t \in Tasks, n \in Names : OthersQuiet(t) /\ RegisterCall(t, n)
    \/ \E t \in Tasks : RegKvGet(t)
    \/ \E t \in Tasks : RegAfterGet(t)
    \/ \E t \in Tasks : RegKvPut(t)
    \/ \E t \in Tasks : RegAfterPut(t)
    \/ \E t \in Tasks : OthersQuiet(t) /\ DeregisterCall(t)
    \/ \E t \in Tasks : DeregAttempt(t)
    \/ \E t \in Tasks : DeregCount(t)
    \/ \E t \in Tasks : DeregCount2(t)
    \/ \E t \in Tasks : DeregKvGet(t)
    \/ \E t \in Tasks : DeregKvDelete(t)
    \/ \E t \in Tasks : Return(t)
    \/ \E id \in catalog : HealthFlip(id)
    \/ Tick

SpecSeq == Init /\ [][NextSeq]_vars

\* ------------------------------------------- interleaved, no backend failure
\* the calls of the registries interleave at their awaits and every backend
\* call goes through
NextNoFault ==
    /\ UNCHANGED faults
    /\ \/ \E t \in Tasks, n \in Names : RegisterCall(t, n)
       \/ \E t \in Tasks : RegKvGet(t)
       \/ \E t \in Tasks : RegAfterGet(t)
       \/ \E t \in Tasks : RegKvPut(t)
       \/ \E t \in Tasks : RegAfterPut(t)
       \/ \E t \in Tasks : DeregisterCall(t)
       \/ \E t \in Tasks : DeregAttempt(t)
       \/ \E t \in Tasks : DeregCount(t)
       \/ \E t \in Tasks : DeregCount2(t)
       \/ \E t \in Tasks : DeregKvGet(t)
       \/ \E t \in Tasks : DeregKvDelete(t)
       \/ \E t \in Tasks : Return(t)
       \/ Tick

SpecNoFault == Init /\ [][NextNoFault]_vars

\* ------------------------------------- calls that pass another service_name
\* a second service_name a caller may pass
OtherNames == {"svc.b"}

\* the calls are made one after another, every backend call goes through,
\* and register_service() is called with either service_name
NextRename ==
    /\ UNCHANGED faults
    /\ \/ \E t \in Tasks, n \in Names \cup OtherNames : OthersQuiet(t) /\ RegisterCall(t, n)
       \/ \E t \in Tasks : RegKvGet(t)
       \/ \E t \in Tasks : RegAfterGet(t)
       \/ \E t \in Tasks : RegKvPut(t)
       \/ \E t \in Tasks : RegAfterPut(t)
       \/ \E t \in Tasks : OthersQuiet(t) /\ DeregisterCall(t)
       \/ \E t \in Tasks : DeregAttempt(t)
       \/ \E t \in Tasks : DeregCount(t)
       \/ \E t \in Tasks : DeregCount2(t)
       \/ \E t \in Tasks : DeregKvGet(t)
       \/ \E t \in Tasks : DeregKvDelete(t)
       \/ \E t \in Tasks : Return(t)
       \/ Tick

SpecRename == Init /\ [][NextRename]_vars

\* ------------------------------------------------ QQBotMicroservice
\* The service owns registry 1 and calls it from task 1 (service.py:112-126,
\* :256-258).  start() and stop() are stepped at their awaits; svc.log is the
\* list of shutdown phases that stop() has entered.
SvcTask == 1

SvcSet(f) == svc' = f

\* service.py:50-57: create the sender and connect it
StartConnect ==
    /\ svc.st = "new"
    /\ \/ SvcSet([svc EXCEPT !.sender = TRUE, !.st = "st_consul"])
       \/ SvcSet([svc EXCEPT !.sender = TRUE, !.st = "start_failed"])
    /\ UNCHANGED <<obj, backend, now, owner, aux, pc, loc, ret, calls, faults>>

\* service.py:67, :112-116: with a Consul host configured, create the client
StartConsul ==
    /\ svc.st = "st_consul"
    /\ IF svc.consul_host
       THEN SvcSet([svc EXCEPT !.consul_client = TRUE, !.st = "st_register"])
       ELSE SvcSet([svc EXCEPT !.st = "st_grpc"])
    /\ UNCHANGED <<obj, backend, now, owner, aux, pc, loc, ret, calls, faults>>

\* service.py:119-126: start() awaits register_service()
StartRegisterCall(n) ==
    /\ svc.st = "st_register"
    /\ RegisterCall(SvcTask, n)

\* variant: a failed registration ends start()
AfterRegisterSt_abort(ok) == IF ok THEN "st_grpc" ELSE "start_failed"

\* service.py:119-131: both branches only log; start() goes on to the gRPC server
AfterRegisterSt(ok) == "st_grpc"

\* service.py:127-129: either result of register_service() lets start() go on
StartAfterRegister ==
    /\ svc.st = "st_register"
    /\ pc[SvcTask] = "r_done"
    /\ SvcSet([svc EXCEPT !.st = AfterRegisterSt(ret[SvcTask])])
    /\ pc'  = [pc EXCEPT ![SvcTask] = "idle"]
    /\ loc' = [loc EXCEPT ![SvcTask] = InitLoc]
    /\ calls' = [calls EXCEPT ![SvcTask] = <<>>]
    /\ UNCHANGED <<obj, backend, now, owner, aux, ret, faults>>

\* service.py:131-166: create and start the gRPC server, start the health task;
\* an exception (server created or not) makes start() return False
StartGrpc ==
    /\ svc.st = "st_grpc"
    /\ \/ SvcSet([svc EXCEPT !.grpc_server = TRUE, !.tasks = TRUE, !.st = "running"])
       \/ \E created \in BOOLEAN :
            SvcSet([svc EXCEPT !.grpc_server = created, !.st = "start_failed"])
    /\ UNCHANGED <<obj, backend, now, owner, aux, pc, loc, ret, calls, faults>>

\* variant: the guard never returns
AlreadyStopping_never(s) == FALSE

\* service.py:224-225: the guard `if self._shutting_down: return`
AlreadyStopping(s) == s.shutting_down

\* service.py:224-233: the guard, the flag, the cancellation of the tasks
StopCall ==
    /\ svc.st \in {"running", "start_failed"}
    /\ ~AlreadyStopping(svc)
    /\ SvcSet([svc EXCEPT !.shutting_down = TRUE,
                          !.st = IF svc.tasks THEN "s_tasks" ELSE "s_consul"])
    /\ UNCHANGED <<obj, backend, now, owner, aux, pc, loc, ret, calls, faults>>

\* service.py:236-247: wait for the tasks; a timeout or an exception is logged
StopTasks ==
    /\ svc.st = "s_tasks"
    /\ SvcSet([svc EXCEPT !.log = Append(@, "tasks"), !.st = "s_consul"])
    /\ UNCHANGED <<obj, backend, now, owner, aux, pc, loc, ret, calls, faults>>

\* service.py:250-258, :273-274: with a client, create the deregistration task
StopConsul ==
    /\ svc.st = "s_consul"
    /\ IF svc.consul_client
       THEN SvcSet([svc EXCEPT !.log = Append(@, "consul"), !.st = "s_wait"])
       ELSE SvcSet([svc EXCEPT !.st = "s_grpc"])
    /\ UNCHANGED <<obj, backend, now, owner, aux, pc, loc, ret, calls, faults>>

\* service.py:256-258: the task runs deregister_service()
StopDeregisterCall ==
    /\ svc.st = "s_wait"
    /\ DeregisterCall(SvcTask)

\* variant: a deregistration that did not succeed ends the shutdown
AfterConsulSt_abort(success) == IF success THEN "s_grpc" ELSE "stopped"

\* service.py:260-276: whatever wait_for gave, stop() goes on to the gRPC server
AfterConsulSt(success) == "s_grpc"

\* service.py:261-265: wait_for returns the result of deregister_service()
StopConsulDone ==
    /\ svc.st = "s_wait"
    /\ pc[SvcTask] = "d_done"
    /\ SvcSet([svc EXCEPT !.consul_success = ret[SvcTask],
                          !.st = AfterConsulSt(ret[SvcTask])])
    /\ UNCHANGED <<obj, backend, now, owner, aux, pc, loc, ret, calls, faults>>

\* The task is cancelled at the await it is suspended in.  CancelledError is
\* not an Exception, so neither consul.py:204, :293 nor consul.py:179 catches it
\* and _reset_state is not run; the backend call in flight on the worker
\* thread may or may not still take effect.
Cancel(t) ==
    LET o == owner[t] IN
    /\ pc[t] \in {"d_dereg", "d_count", "d_count2", "d_kvget", "d_kvdel"}
    /\ pc' = [pc EXCEPT ![t] = "d_cancelled"]
    /\ Log(t, "cancelled")
    /\ \E lands \in BOOLEAN :
         /\ catalog' = IF lands /\ pc[t] = "d_dereg"
                       THEN catalog \ {service_id[o]} ELSE catalog
         /\ passing' = IF lands /\ pc[t] = "d_dereg"
                       THEN passing \ {service_id[o]} ELSE passing
         /\ kv' = IF lands /\ pc[t] = "d_kvdel"
                  THEN [p \in DOMAIN kv \ {kv_path[o]} |-> kv[p]] ELSE kv
    /\ UNCHANGED <<obj, now, owner, aux, loc, ret, faults>>

\* variant: the task is awaited without a timeout
DeregisterTimeout_none == FALSE

\* service.py:261  wait_for(consul_task, timeout=10.0): the wait has a ceiling
DeregisterTimeout == TRUE

\* service.py:261, :266-268: the 10 s of wait_for pass first: the task is
\* cancelled and TimeoutError is caught
StopConsulTimeout ==
    /\ svc.st = "s_wait"
    /\ DeregisterTimeout
    /\ Cancel(SvcTask)
    /\ SvcSet([svc EXCEPT !.consul_success = FALSE, !.st = AfterConsulSt(FALSE)])

\* service.py:277-283: stop the gRPC server if there is one; an exception is logged
StopGrpc ==
    /\ svc.st = "s_grpc"
    /\ IF svc.grpc_server
       THEN SvcSet([svc EXCEPT !.log = Append(@, "grpc"), !.st = "s_sender"])
       ELSE SvcSet([svc EXCEPT !.st = "s_sender"])
    /\ UNCHANGED <<obj, backend, now, owner, aux, pc, loc, ret, calls, faults>>

\* service.py:286-294: disconnect the sender if there is one
StopSender ==
    /\ svc.st = "s_sender"
    /\ IF svc.sender
       THEN SvcSet([svc EXCEPT !.log = Append(@, "sender"), !.st = "stopped"])
       ELSE SvcSet([svc EXCEPT !.st = "stopped"])
    /\ UNCHANGED <<obj, backend, now, owner, aux, pc, loc, ret, calls, faults>>

\* service.py:224-233: stop() is called once more, while the first call is
\* suspended at one of its awaits or after it has returned; svc.returns
\* records where the first call was when a later call returned at the guard
StopAgain ==
    /\ svc.st \in {"s_tasks", "s_consul", "s_wait", "s_grpc", "s_sender", "stopped"}
    /\ Len(svc.returns) < MaxStops
    /\ IF AlreadyStopping(svc)
       THEN SvcSet([svc EXCEPT !.returns = Append(@, svc.st)])
       ELSE SvcSet([svc EXCEPT !.shutting_down = TRUE,
                               !.st = IF svc.tasks THEN "s_tasks" ELSE "s_consul"])
    /\ UNCHANGED <<obj, backend, now, owner, aux, pc, loc, ret, calls, faults>>

\* one other instance of the service, a registry of another process
OtherTask == SvcTask + 1

\* the other instance registers
OtherInstance(t) ==
    \/ \E n \in Names : RegisterCall(t, n)
    \/ RegKvGet(t)
    \/ RegAfterGet(t)
    \/ RegKvPut(t)
    \/ RegAfterPut(t)

InitStop ==
    /\ InitRegistry
    /\ owner = [t \in Tasks |-> t]
    /\ \E h \in BOOLEAN : svc = SvcNew(h)

NextStop ==
    \/ StartConnect
    \/ StartConsul
    \/ \E n \in Names : StartRegisterCall(n)
    \/ RegKvGet(SvcTask)
    \/ RegAfterGet(SvcTask)
    \/ RegKvPut(SvcTask)
    \/ RegAfterPut(SvcTask)
    \/ StartAfterRegister
    \/ StartGrpc
    \/ StopCall
    \/ StopTasks
    \/ StopConsul
    \/ StopDeregisterCall
    \/ DeregAttempt(SvcTask)
    \/ DeregCount(SvcTask)
    \/ DeregCount2(SvcTask)
    \/ DeregKvGet(SvcTask)
    \/ DeregKvDelete(SvcTask)
    \/ StopConsulDone
    \/ StopConsulTimeout
    \/ StopGrpc
    \/ StopSender
    \/ OtherInstance(OtherTask)

SpecStop == InitStop /\ [][NextStop]_vars

\* the event loop runs a coroutine that can run, and the timer of wait_for fires
FairSpecStop == SpecStop /\ WF_vars(NextStop)

\* the steps of stop() itself: they need the event loop and its timers only
StopSteps ==
    \/ StopCall
    \/ StopTasks
    \/ StopConsul
    \/ StopDeregisterCall
    \/ StopConsulDone
    \/ StopConsulTimeout
    \/ StopGrpc
    \/ StopSender

\* the event loop runs stop() and fires its timers; the backend need not ever
\* answer a call of the registry
FairSpecHang == SpecStop /\ WF_vars(StopSteps)

\* start() and stop() with further calls of stop(); every backend call goes
\* through
NextStopAgain ==
    /\ UNCHANGED faults
    /\ \/ StartConnect
       \/ StartConsul
       \/ \E n \in Names : StartRegisterCall(n)
       \/ RegKvGet(SvcTask)
       \/ RegAfterGet(SvcTask)
       \/ RegKvPut(SvcTask)
       \/ RegAfterPut(SvcTask)
       \/ StartAfterRegister
       \/ StartGrpc
       \/ StopCall
       \/ StopAgain
       \/ StopTasks
       \/ StopConsul
       \/ StopDeregisterCall
       \/ DeregAttempt(SvcTask)
       \/ DeregCount(SvcTask)
       \/ DeregCount2(SvcTask)
       \/ DeregKvGet(SvcTask)
       \/ DeregKvDelete(SvcTask)
       \/ StopConsulDone
       \/ StopConsulTimeout
       \/ StopGrpc
       \/ StopSender
       \/ OtherInstance(OtherTask)

SpecStopAgain == InitStop /\ [][NextStopAgain]_vars

\* where the code runs a backend call: through loop.run_in_executor
\* (consul.py:196, :230, :272, :282, :302, :326) or, for the catalog
\* registration, directly in the coroutine (consul.py:121)
RunsInExecutor(c) == c \notin {"catalog_register", "catalog_register_raise"}

\* ------------------------------------------------------- the KV path
\* paths are sequences of characters
Chars == {"e", "/"}

Strings(n) == UNION {[1..k -> Chars] : k \in 0..n}

\* variant: the trailing slashes are kept
rstrip_nothing(s) == s

\* str.rstrip("/"): every trailing slash is removed
RECURSIVE rstrip(_)
rstrip(s) ==
    IF s # <<>> /\ s[Len(s)] = "/" THEN rstrip(SubSeq(s, 1, Len(s) - 1)) ELSE s

\* consul.py:54  self.kv_base_path = kv_base_path.rstrip("/") + "/"
ClientInit ==
    /\ client.st = "new"
    /\ client' = [client EXCEPT !.st = "ready",
                                !.kv_base_path = rstrip(client.base) \o <<"/">>]
    /\ UNCHANGED <<obj, backend, now, owner, pc, loc, ret, calls, faults, svc, hc, snd>>

\* consul.py:80-81  self.kv_path = f"{self.kv_base_path}{service_name}"
ClientRegister(name) ==
    /\ client.st = "ready"
    /\ client' = [client EXCEPT !.st = "named",
                                !.service_name = name,
                                !.kv_path = client.kv_base_path \o name]
    /\ UNCHANGED <<obj, backend, now, owner, pc, loc, ret, calls, faults, svc, hc, snd>>

InitPath ==
    /\ InitRegistryVars
    /\ owner = [t \in Tasks |-> t]
    /\ svc = SvcNew(TRUE)
    /\ hc = HcNew
    /\ snd = SndNew
    /\ \E base \in Strings(MaxLen) : client = ClientNew(base)

NextPath ==
    \/ ClientInit
    \/ \E name \in Strings(MaxLen) \ {<<>>} : ClientRegister(name)

SpecPath == InitPath /\ [][NextPath]_vars

\* ------------------------------------------------- _health_check_task
HealthOutcomes == {"healthy", "unhealthy", "raise"}

\* variant: the reconnect test never passes
ReconnectDue_never(c) == FALSE

\* service.py:186  if check_count % 3 == 0
ReconnectDue(c) == c % 3 = 0

\* service.py:175-176: the sleep ends and the iteration is counted
HealthWake ==
    /\ hc.pc = "sleep"
    /\ Len(hc.outcomes) < MaxChecks
    /\ hc' = [hc EXCEPT !.pc = "check", !.check_count = @ + 1]
    /\ UNCHANGED <<obj, backend, now, owner, pc, loc, ret, calls, faults, svc, client, snd>>

\* service.py:178-205: sender.health_check() returns or raises
HealthResult(o) ==
    /\ hc.pc = "check"
    /\ CASE o = "healthy" ->
              \* :192-195
              hc' = [hc EXCEPT !.pc = "sleep", !.check_count = 0,
                               !.connected = TRUE,
                               !.outcomes = Append(@, o)]
         [] o = "unhealthy" ->
              \* :182-191
              \E c \in BOOLEAN :
                 IF ReconnectDue(hc.check_count)
                 THEN hc' = [hc EXCEPT !.pc = "reconnect", !.connected = FALSE,
                                       !.reconnects = @ + 1,
                                       !.outcomes = Append(@, o)]
                 ELSE hc' = [hc EXCEPT !.pc = "sleep", !.connected = c,
                                       !.outcomes = Append(@, o)]
         [] o = "raise" ->
              \* :197-205
              IF hc.check_count + 1 >= max_failures
              THEN hc' = [hc EXCEPT !.pc = "sleep", !.check_count = 0,
                                    !.connected = FALSE,
                                    !.outcomes = Append(@, o)]
              ELSE hc' = [hc EXCEPT !.pc = "sleep", !.check_count = @ + 1,
                                    !.outcomes = Append(@, o)]
    /\ UNCHANGED <<obj, backend, now, owner, pc, loc, ret, calls, faults, svc, client, snd>>

\* service.py:190-191: sender.connect() returns, then check_count = 0
HealthReconnected ==
    /\ hc.pc = "reconnect"
    /\ \E c \in BOOLEAN :
          hc' = [hc EXCEPT !.pc = "sleep", !.check_count = 0, !.connected = c]
    /\ UNCHANGED <<obj, backend, now, owner, pc, loc, ret, calls, faults, svc, client, snd>>

\* service.py:207-208: stop() cancels the task at one of its awaits
HealthCancel ==
    /\ hc.pc \in {"sleep", "check", "reconnect"}
    /\ hc' = [hc EXCEPT !.pc = "done"]
    /\ UNCHANGED <<obj, backend, now, owner, pc, loc, ret, calls, faults, svc, client, snd>>

NextHealth ==
    \/ HealthWake
    \/ \E o \in HealthOutcomes : HealthResult(o)
    \/ HealthReconnected
    \/ HealthCancel

SpecHealth == Init /\ [][NextHealth]_vars

\* ---------------------------------------------------------- QQBotSender
Targets == {"10001", "10002"}

TargetLists == UNION {[1..k -> Targets] : k \in 0..MaxTargets}

\* sender.py:119-121: the shared connection can be reused (if it is recent)
CanReuse(s) == s.global_api /\ s.global_valid

\* sender.py:94-165 connect(): it has no await and runs in one step.  Each
\* outcome gives the flags after the call, how the call went and its result.
ConnectOutcomes(s) ==
    IF s.connected
    THEN {[connected |-> TRUE, global_api |-> s.global_api,
           global_valid |-> s.global_valid, how |-> "already", ok |-> TRUE]}
    ELSE \* :112-114 ncatbot cannot be imported
         {[connected |-> FALSE, global_api |-> s.global_api,
           global_valid |-> s.global_valid, how |-> "failed", ok |-> FALSE]}
         \cup
         \* :119-126 the shared connection is valid and less than 300 s old
         (IF CanReuse(s)
          THEN {[connected |-> TRUE, global_api |-> TRUE,
                 global_valid |-> TRUE, how |-> "reused", ok |-> TRUE]}
          ELSE {})
         \cup
         \* :129-159 run_backend(): success, failed login test, exception
         {[connected |-> TRUE, global_api |-> TRUE,
           global_valid |-> TRUE, how |-> "rebuilt", ok |-> TRUE],
          [connected |-> FALSE, global_api |-> TRUE,
           global_valid |-> FALSE, how |-> "failed", ok |-> FALSE],
          [connected |-> FALSE, global_api |-> s.global_api,
           global_valid |-> FALSE, how |-> "failed", ok |-> FALSE]}

\* the sender starts a call
Started_call(s, op, targets) ==
    [s EXCEPT !.op = op, !.targets = targets, !.sends = <<>>,
              !.success_count = 0, !.failure_count = 0,
              !.error_before = s.error_count, !.ops = @ + 1, !.how = "none"]

Connected(s, c) ==
    [s EXCEPT !.connected = c.connected, !.global_api = c.global_api,
              !.global_valid = c.global_valid, !.how = c.how]

\* sender.py:348-414 send_message(): the arguments are validated, then connect()
SendMessage(target, valid) ==
    /\ snd.pc \in {"idle", "done"}
    /\ snd.ops < MaxOps
    /\ LET s0 == Started_call(snd, "send", <<target>>) IN
       IF ~valid
       THEN snd' = [s0 EXCEPT !.pc = "done", !.how = "invalid",
                              !.result = [success |-> FALSE, total_count |-> 1,
                                          success_count |-> 0, failure_count |-> 1]]
       ELSE \E c \in ConnectOutcomes(snd) :
               IF c.ok
               THEN snd' = [Connected(s0, c) EXCEPT !.pc = "sm_send"]
               ELSE snd' = [Connected(s0, c) EXCEPT
                               !.pc = "done",
                               !.result = [success |-> FALSE, total_count |-> 1,
                                           success_count |-> 0, failure_count |-> 1]]
    /\ UNCHANGED <<obj, backend, now, owner, pc, loc, ret, calls, faults, svc, client, hc>>

\* sender.py:418-471: one attempt of the retry loop, and the return after the
\* first success or after the last attempt
SendAttempt(ok) ==
    /\ snd.pc = "sm_send"
    /\ LET sends == Append(snd.sends, [target |-> snd.targets[1], ok |-> ok]) IN
       IF ok
       THEN snd' = [snd EXCEPT !.sends = sends, !.pc = "done", !.error_count = 0,
                               !.result = [success |-> TRUE, total_count |-> 1,
                                           success_count |-> 1, failure_count |-> 0]]
       ELSE IF Len(sends) < sender_max_retries
            THEN snd' = [snd EXCEPT !.sends = sends, !.connected = FALSE,
                                    !.global_valid = FALSE]
            ELSE snd' = [snd EXCEPT !.sends = sends, !.connected = FALSE,
                                    !.global_valid = FALSE, !.pc = "done",
                                    !.error_count = @ + 1,
                                    !.result = [success |-> FALSE, total_count |-> 1,
                                                success_count |-> 0, failure_count |-> 1]]
    /\ UNCHANGED <<obj, backend, now, owner, pc, loc, ret, calls, faults, svc, client, hc>>

\* variant: a batch always reports success
BatchSuccess_always(success_count) == TRUE

\* sender.py:579  "success": success_count > 0
BatchSuccess(success_count) == success_count > 0

\* sender.py:577-595: the result of a batch
BatchResult(s) ==
    [success |-> BatchSuccess(s.success_count), total_count |-> Len(s.targets),
     success_count |-> s.success_count, failure_count |-> s.failure_count]

\* sender.py:473-530 send_batch_messages(): connect(); a failure counts every
\* target as failed; an empty list returns after connect()
SendBatch(targets) ==
    /\ snd.pc \in {"idle", "done"}
    /\ snd.ops < MaxOps
    /\ LET s0 == Started_call(snd, "batch", targets) IN
       \E c \in ConnectOutcomes(snd) :
          IF ~c.ok
          THEN snd' = [Connected(s0, c) EXCEPT
                          !.pc = "done",
                          !.result = [success |-> FALSE, total_count |-> Len(targets),
                                      success_count |-> 0,
                                      failure_count |-> Len(targets)]]
          ELSE IF targets = <<>>
               THEN snd' = [Connected(s0, c) EXCEPT
                               !.pc = "done", !.result = BatchResult(s0)]
               ELSE snd' = [Connected(s0, c) EXCEPT !.pc = "sb_send"]
    /\ UNCHANGED <<obj, backend, now, owner, pc, loc, ret, calls, faults, svc, client, hc>>

\* sender.py:535-595: the send to the next target.  After a failure on a
\* target that is not the last, _connected is reset; the assignment to
\* _global_connection_valid (:560) is to a local variable, the function
\* having no global declaration, and the module global keeps its value.
BatchSend(ok) ==
    /\ snd.pc = "sb_send"
    /\ LET i     == Len(snd.sends) + 1
           sends == Append(snd.sends, [target |-> snd.targets[i], ok |-> ok])
           last  == i = Len(snd.targets)
           s1    == [snd EXCEPT !.sends = sends,
                                !.success_count = IF ok THEN @ + 1 ELSE @,
                                !.failure_count = IF ok THEN @ ELSE @ + 1,
                                !.connected = IF ~ok /\ ~last THEN FALSE ELSE @]
       IN IF last
          THEN snd' = [s1 EXCEPT !.pc = "done", !.result = BatchResult(s1)]
          ELSE snd' = s1
    /\ UNCHANGED <<obj, backend, now, owner, pc, loc, ret, calls, faults, svc, client, hc>>

\* sender.py:167-177 disconnect(): only the state of the sender is reset
SenderDisconnect ==
    /\ snd.pc \in {"idle", "done"}
    /\ snd.connected \/ snd.error_count > 0
    /\ snd' = [snd EXCEPT !.pc = "idle", !.connected = FALSE, !.error_count = 0]
    /\ UNCHANGED <<obj, backend, now, owner, pc, loc, ret, calls, faults, svc, client, hc>>

NextSender ==
    \/ \E target \in Targets, valid \in BOOLEAN : SendMessage(target, valid)
    \/ \E ok \in BOOLEAN : SendAttempt(ok)
    \/ \E targets \in TargetLists : SendBatch(targets)
    \/ \E ok \in BOOLEAN : BatchSend(ok)
    \/ SenderDisconnect

SpecSender == Init /\ [][NextSender]_vars

\* ================================================================ claims
Range(s) == {s[k] : k \in 1..Len(s)}

\* no backend failure has been injected
Clean == faults = 0

\* task t has just returned from a deregister_service() that deregistered its instance
Deregistered(t) == pc[t] = "d_done" /\ "catalog_deregister" \in Range(calls[t])

OtherRegistered(t) ==
    \E r \in Regs \ {owner[t]} : registered[r] /\ service_name[r] = loc[t].name

\* the step in which task t deletes the KV record of its kv_path
DeletesKv(t) ==
    /\ pc[t] = "d_kvdel"
    /\ pc'[t] # "d_kvdel"
    /\ kv_path[owner[t]] \in DOMAIN kv
    /\ kv_path[owner[t]] \notin DOMAIN kv'

\* C1: under any interleaving of register and deregister calls of registries
\* sharing a service_name, no registry deletes the KV record while another
\* instance of that service_name is registered and passing in the catalog
\* (stated for the behaviours in which no backend call has failed).
C1_NoDeleteWhileOtherPassing ==
    [][\A t \in Tasks :
         (faults = 0 /\ DeletesKv(t)) =>
            ~\E id \in passing : /\ IdName(id) = service_name[owner[t]]
                                 /\ id # service_id[owner[t]]]_vars

IsDereg(c)  == c \in {"catalog_deregister", "catalog_deregister_raise"}
IsCount(c)  == c \in {"health_query", "health_query_raise"}
IsDelete(c) == c \in {"kv_delete", "kv_delete_fail"}

\* C2: in every execution of deregister_service() every catalog-deregistration
\* attempt precedes the instance-count query and the instance-count query
\* precedes every KV delete call, also when the catalog deregistration fails.
C2_DeregisterOrder ==
    \A t \in Tasks :
       pc[t] \in {"d_dereg", "d_count", "d_count2", "d_kvget", "d_kvdel", "d_done"} =>
          LET c == calls[t] IN
          /\ \A a, b \in 1..Len(c) :
                (a < b /\ IsDereg(c[b])) => ~(IsCount(c[a]) \/ IsDelete(c[a]))
          /\ \A b \in 1..Len(c) :
                IsDelete(c[b]) => \E a \in 1..(b - 1) : IsCount(c[a])
          /\ \A a, b \in 1..Len(c) :
                (a < b /\ IsCount(c[b])) => ~IsDelete(c[a])

\* a deregister whose three catalog attempts failed went on to count and delete
C2_Witness ==
    \E t \in Tasks :
       /\ pc[t] = "d_done"
       /\ ~ret[t]
       /\ "catalog_deregister_raise" \in Range(calls[t])
       /\ "kv_delete" \in Range(calls[t])

\* C3: if the passing-instances query raises during deregister_service() the
\* count is treated as non-zero and the KV deletion is skipped: no KV delete
\* is issued by a call whose health query raised.
C3_FailedQuerySkipsDelete ==
    \A t \in Tasks :
       (pc[t] \in {"d_kvget", "d_kvdel", "d_done"}
          /\ "health_query_raise" \in Range(calls[t]))
       => /\ pc[t] = "d_done"
          /\ ~\E k \in 1..Len(calls[t]) : IsDelete(calls[t][k])

\* C4: if every catalog-deregistration attempt failed, so that the own
\* instance is still registered and passing, deregister_service() does not
\* delete the KV record.
C4_NoDeleteWhileOwnPassing ==
    [][\A t \in Tasks :
         (DeletesKv(t) /\ ~loc[t].service_deregistered)
            => service_id[owner[t]] \notin passing]_vars

\* C5: registries of one service_name, called one after another with no
\* backend failure: after each deregister_service() the KV record is present
\* exactly when another registry of the name is still registered, so it is
\* present after every deregistration but the last and absent after the last.
C5_SharedKvRetention ==
    \A t \in Tasks :
       (Clean /\ Deregistered(t) /\ OthersQuiet(t))
       => (KvPath(loc[t].name) \in DOMAIN kv <=> OtherRegistered(t))

\* the first of two registries has deregistered and the record is retained
C5_Witness ==
    \E t \in Tasks :
       /\ Clean /\ Deregistered(t) /\ OthersQuiet(t)
       /\ OtherRegistered(t)
       /\ KvPath(loc[t].name) \in DOMAIN kv

\* C6: a registry with no other registered instance of its service_name that
\* registers and then deregisters with no backend failure leaves neither its
\* catalog entry nor the KV record behind.
C6_SoleInstanceLifecycle ==
    \A t \in Tasks :
       (Clean /\ Deregistered(t) /\ OthersQuiet(t) /\ ~OtherRegistered(t))
       => /\ ~\E id \in catalog : id[2] = Port(owner[t])
          /\ KvPath(loc[t].name) \notin DOMAIN kv

C6_Witness ==
    \E t \in Tasks :
       /\ Clean /\ Deregistered(t) /\ OthersQuiet(t) /\ ~OtherRegistered(t)
       /\ "kv_delete" \in Range(calls[t])
       /\ catalog = {}

\* a step that starts register_service() on task t
StartsRegister(t) == pc[t] = "idle" /\ pc'[t] \in {"r_get", "r_done"}

\* C7: register_service() on a registered registry returns true at once and
\* adds nothing to the catalog; with no failed deregistration before it the
\* catalog holds exactly one entry of that registry.
C7_IdempotentRegister ==
    [][\A t \in Tasks :
         (StartsRegister(t) /\ registered[owner[t]])
            => /\ pc'[t] = "r_done"
               /\ ret'[t] = TRUE
               /\ calls'[t] = <<>>
               /\ catalog' = catalog
               /\ service_id[owner[t]] \in catalog'
               /\ (faults = 0 =>
                     Cardinality({id \in catalog' : id[2] = Port(owner[t])}) = 1)]_vars

\* a register_service() that found the registry registered has returned true
C7_Witness ==
    \E t \in Tasks :
       /\ pc[t] = "r_done"
       /\ calls[t] = <<>>
       /\ ret[t]
       /\ registered[owner[t]]
       /\ service_id[owner[t]] \in catalog

\* C8: overlapping register_service() calls on the same registry object
\* create at most one catalog entry.
C8_ReentrantRegisterOneEntry == Cardinality(catalog) <= 1

\* C9: with k passing instances of the service_name, the own service_id among
\* them, the instance count of deregister_service() is exactly k - 1.
C9_ExclusionCorrect ==
    [][\A t \in Tasks :
         LET o == owner[t]
             nodes == QueryPassing(service_name[o])
         IN (/\ pc[t] \in {"d_count", "d_count2"}
             /\ calls'[t] = Append(calls[t], "health_query")
             /\ service_id[o] \in nodes)
            => loc'[t].active_count = Cardinality(nodes) - 1]_vars

\* the own instance is still passing and one other instance was counted
C9_Witness ==
    \E t \in Tasks :
       /\ pc[t] = "d_count2"
       /\ calls[t][Len(calls[t])] = "health_query"
       /\ service_id[owner[t]] \in passing
       /\ Cardinality(QueryPassing(service_name[owner[t]])) = 2
       /\ loc[t].active_count = 1

\* C10: after deregister_service() returns, whatever the outcome of its
\* steps, registered is false and service_id, service_name and kv_path are
\* cleared.
C10_ResetAfterDeregister ==
    \A t \in Tasks :
       pc[t] = "d_done" =>
          /\ ~registered[owner[t]]
          /\ service_id[owner[t]] = NoId
          /\ service_name[owner[t]] = None
          /\ kv_path[owner[t]] = None

\* a deregister_service() whose catalog deregistration failed has returned
C10_Witness ==
    \E t \in Tasks :
       /\ pc[t] = "d_done"
       /\ ~ret[t]
       /\ "catalog_deregister_raise" \in Range(calls[t])

\* the positions of a call of deregister_service()
InDeregister(t) ==
    pc[t] \in {"d_dereg", "d_count", "d_count2", "d_kvget", "d_kvdel", "d_done"}

\* how many entries of the call log of task t are c
CountOf(t, c) == Cardinality({k \in 1..Len(calls[t]) : calls[t][k] = c})

\* the catalog-deregistration step of the call of task t succeeded: it was
\* not needed, or one of its attempts went through
CatalogStepOk(t) ==
    \/ ~\E k \in 1..Len(calls[t]) : IsDereg(calls[t][k])
    \/ "catalog_deregister" \in Range(calls[t])

StateReset(o) ==
    /\ ~registered[o]
    /\ service_id[o] = NoId
    /\ service_name[o] = None
    /\ kv_path[o] = None

\* C12: deregister_service() returns exactly the success of the
\* catalog-deregistration step; when the KV delete has failed on all three
\* attempts the result is not turned to false, the KV record remains and the
\* state is reset.
C12_ResultIsCatalogStep ==
    \A t \in Tasks :
       pc[t] = "d_done" =>
          /\ ret[t] <=> CatalogStepOk(t)
          /\ CountOf(t, "kv_delete_fail") = 3 =>
                /\ KvPath(loc[t].name) \in DOMAIN kv
                /\ StateReset(owner[t])

\* the catalog deregistration went through, the three KV deletes failed, and
\* the call has returned true
C12_Witness ==
    \E t \in Tasks :
       /\ pc[t] = "d_done"
       /\ "catalog_deregister" \in Range(calls[t])
       /\ CountOf(t, "kv_delete_fail") = 3
       /\ ret[t]
       /\ KvPath(loc[t].name) \in DOMAIN kv

\* the KV delete calls of the call log of task t, in order
RECURSIVE Deletes(_)
Deletes(c) ==
    IF c = <<>> THEN <<>>
    ELSE IF IsDelete(Head(c)) THEN <<Head(c)>> \o Deletes(Tail(c))
    ELSE Deletes(Tail(c))

\* the attempts of the delete loop of task t that have failed so far
FailedKvAttempts(t) == CountOf(t, "kv_get_raise") + CountOf(t, "kv_delete_fail")

\* C13: the KV delete is attempted at most 3 times and stops at the first
\* success; when it fails on attempts 1 and 2 and succeeds on attempt 3, with
\* the catalog deregistration done, deregister_service() returns true and the
\* KV record is absent.
C13_KvDeleteRetry ==
    \A t \in Tasks :
       InDeregister(t) =>
          /\ Len(Deletes(calls[t])) <= 3
          /\ pc[t] \in {"d_kvget", "d_kvdel"} => FailedKvAttempts(t) < 3
          /\ \A k \in 1..Len(calls[t]) :
                calls[t][k] = "kv_delete" => (k = Len(calls[t]) /\ pc[t] = "d_done")
          /\ ( /\ pc[t] = "d_done"
               /\ Deletes(calls[t]) = <<"kv_delete_fail", "kv_delete_fail", "kv_delete">>
               /\ "catalog_deregister" \in Range(calls[t]) )
             => /\ ret[t]
                /\ KvPath(loc[t].name) \notin DOMAIN kv

\* two failed deletes, then the third one removed the record
C13_Witness ==
    \E t \in Tasks :
       /\ pc[t] = "d_done"
       /\ Deletes(calls[t]) = <<"kv_delete_fail", "kv_delete_fail", "kv_delete">>
       /\ "catalog_deregister" \in Range(calls[t])
       /\ ret[t]
       /\ KvPath(loc[t].name) \notin DOMAIN kv

\* the step in which the catalog registration of task t raises
CatalogRegisterRaises(t) ==
    /\ pc[t] \in {"r_got", "r_putted"}
    /\ calls'[t] = Append(calls[t], "catalog_register_raise")

StartsDeregister(t) == pc[t] = "idle" /\ InDeregister(t)'

\* C17: deregister_service() on a registry whose service_name is unset makes
\* no backend call, changes nothing and returns true.
C17_DeregisterUnsetIsNoOp ==
    [][\A t \in Tasks :
         (StartsDeregister(t) /\ service_name[owner[t]] = None)
            => /\ pc'[t] = "d_done"
               /\ ret'[t] = TRUE
               /\ calls'[t] = <<>>
               /\ backend' = backend
               /\ obj' = obj]_vars

\* deregister_service() has returned true on a registry never registered,
\* with no backend call made
C17_Witness ==
    \E t \in Tasks :
       /\ pc[t] = "d_done"
       /\ loc[t].name = None
       /\ calls[t] = <<>>
       /\ ret[t]
       /\ faults = 0
       /\ now = 0
       /\ catalog = {}
       /\ kv = <<>>

\* C15: register_service() never puts the KV record when a record is present
\* at kv_path, also when the existence check itself fails: every kv.put that
\* goes through finds the key absent.
C15_NoPutOverExisting ==
    [][\A t \in Tasks :
         (pc[t] = "r_put" /\ calls'[t] = Append(calls[t], "kv_put"))
            => kv_path[owner[t]] \notin DOMAIN kv]_vars

\* C18: any two catalog registrations carry distinct service_ids; in
\* particular a catalog registration never uses a service_id that an entry of
\* the catalog already carries.
C18_FreshServiceId ==
    [][\A t \in Tasks :
         (pc[t] \in {"r_got", "r_putted"}
            /\ calls'[t] = Append(calls[t], "catalog_register"))
            => service_id'[owner[t]] \notin catalog]_vars

\* every registry has completed its calls and holds no registration
AllDeregistered ==
    /\ \A t \in Tasks : pc[t] \in {"idle", "d_done"}
    /\ \A r \in Regs : StateReset(r)

\* C19: when all registries of the service_name have completed
\* deregister_service() and no backend call failed, the KV record of the
\* service_name is absent, under every interleaving of their steps.
C19_KvTornDownAfterLast ==
    (Clean /\ AllDeregistered) => \A n \in Names : KvPath(n) \notin DOMAIN kv

\* the deregistrations of all registries overlapped and have all returned;
\* one of them kept the record and another deleted it
C19_Witness ==
    /\ Clean
    /\ AllDeregistered
    /\ \A t \in Tasks : Deregistered(t)
    /\ \E t \in Tasks : "kv_delete" \in Range(calls[t])
    /\ \E t \in Tasks : ~\E k \in 1..Len(calls[t]) : IsDelete(calls[t][k])
    /\ kv = <<>>

\* C11: if the 10 s timeout of stop() fires while deregister_service() is in
\* flight, the task is cancelled and the state of the registry is
\* nevertheless reset: registered false, service_id, service_name and kv_path
\* cleared.
C11_ResetAfterTimeout ==
    \A t \in Tasks : pc[t] = "d_cancelled" => StateReset(owner[t])

\* C16: register_service() and deregister_service() always end by returning
\* a boolean, whatever backend call fails and also when the caller's timeout
\* cancels the call: no call ends with an exception leaving it.
C16_AlwaysReturnsBoolean ==
    \A t \in Tasks :
       /\ pc[t] # "d_cancelled"
       /\ pc[t] \in {"r_done", "d_done"} => ret[t] \in BOOLEAN

\* the place of a shutdown phase in the fixed order
PhaseRank(p) ==
    CASE p = "tasks"  -> 1
      [] p = "consul" -> 2
      [] p = "grpc"   -> 3
      [] p = "sender" -> 4

\* the phases stop() has entered are in the fixed order
PhasesInOrder ==
    \A a, b \in 1..Len(svc.log) :
       a < b => PhaseRank(svc.log[a]) < PhaseRank(svc.log[b])

\* stop() has ended with the gRPC server stopped and the sender disconnected
\* after the Consul deregistration had its turn
ShutdownComplete ==
    svc.st = "stopped" =>
       /\ svc.tasks         => "tasks"  \in Range(svc.log)
       /\ svc.consul_client => "consul" \in Range(svc.log)
       /\ svc.grpc_server   => "grpc"   \in Range(svc.log)
       /\ svc.sender        => "sender" \in Range(svc.log)

\* C20: in stop() a failed or timed-out Consul deregistration never aborts
\* the shutdown: the phases are entered in the order background tasks,
\* Consul deregistration, gRPC server, sender, and a stop() that has begun
\* ends with the gRPC server stopped and the sender disconnected.
C20_ShutdownNeverAborted ==
    /\ [](PhasesInOrder /\ ShutdownComplete)
    /\ (svc.shutting_down ~> svc.st = "stopped")

\* the deregistration timed out and stop() went through all four phases
C20_Witness ==
    /\ svc.st = "stopped"
    /\ pc[SvcTask] = "d_cancelled"
    /\ ~svc.consul_success
    /\ svc.log = <<"tasks", "consul", "grpc", "sender">>

\* the entries of the call log of task t that are catalog-deregistration attempts
DeregAttempts(t) == {k \in 1..Len(calls[t]) : IsDereg(calls[t][k])}

C25_GetBeforeEachDelete ==
    /\ [](\A t \in Tasks :
            InDeregister(t) =>
               \A k \in 1..Len(calls[t]) :
                  /\ IsDelete(calls[t][k]) => (k > 1 /\ calls[t][k - 1] = "kv_get")
                  /\ calls[t][k] = "kv_get_none" => (k = Len(calls[t]) /\ pc[t] = "d_done"))
    /\ [][\A t \in Tasks :
            (pc[t] = "d_kvget" /\ calls'[t] = Append(calls[t], "kv_get"))
               => /\ kv_path[owner[t]] \in DOMAIN kv
                  /\ pc'[t] = "d_kvdel"]_vars

\* the get found the record absent and the call returned without a delete
C25_Witness ==
    \E t \in Tasks :
       /\ pc[t] = "d_done"
       /\ calls[t] # <<>>
       /\ calls[t][Len(calls[t])] = "kv_get_none"
       /\ ~\E k \in 1..Len(calls[t]) : IsDelete(calls[t][k])

\* C26: when two registries deregister concurrently and both go on to delete
\* the record, every delete, also the one that finds the key gone, succeeds
\* and changes nothing but the key: the record ends absent and the call
\* returns its own catalog-deregistration result.
C26_BenignDoubleDelete ==
    [][\A t \in Tasks :
         (pc[t] = "d_kvdel" /\ pc'[t] # "d_kvdel")
            => /\ calls'[t] = Append(calls[t], "kv_delete")
               /\ pc'[t] = "d_done"
               /\ kv_path[owner[t]] \notin DOMAIN kv'
               /\ kv_path[owner[t]] \notin DOMAIN kv => kv' = kv
               /\ ret'[t] = CatalogStepOk(t)]_vars

\* two overlapping deregistrations have both deleted and both returned true
C26_Witness ==
    \E t, u \in Tasks :
       /\ t # u
       /\ pc[t] = "d_done" /\ pc[u] = "d_done"
       /\ "kv_delete" \in Range(calls[t])
       /\ "kv_delete" \in Range(calls[u])
       /\ ret[t] /\ ret[u]
       /\ kv = <<>>

\* C30: every KV record written by register_service() has created_at equal
\* to updated_at.
C30_CreatedEqualsUpdated ==
    \A p \in DOMAIN kv : kv[p].created_at = kv[p].updated_at

\* the instance-count queries of the call log of task t
CountQueries(t) == {k \in 1..Len(calls[t]) : IsCount(calls[t][k])}

\* the gets of the KV path in the call log of task t
KvGets(t) ==
    {k \in 1..Len(calls[t]) : calls[t][k] \in {"kv_get", "kv_get_none", "kv_get_raise"}}

\* C27: with a known service_name the instance count is queried whether the
\* catalog deregistration succeeded or failed, and when the only query made
\* found no other instance the KV cleanup follows.
C27_CountAfterAnyOutcome ==
    \A t \in Tasks :
       (pc[t] \in {"d_count2", "d_kvget", "d_kvdel", "d_done"} /\ loc[t].name # None)
       => /\ CountQueries(t) # {}
          /\ (pc[t] = "d_done" /\ Cardinality(CountQueries(t)) = 1) => KvGets(t) # {}

\* the three catalog attempts failed, the count found another instance, the
\* record was kept
C27_Witness ==
    \E t \in Tasks :
       /\ pc[t] = "d_done"
       /\ CountOf(t, "catalog_deregister_raise") = 3
       /\ CountOf(t, "health_query") = 2
       /\ KvGets(t) = {}
       /\ ~ret[t]

\* a deregister_service() starts on a registry that is not registered but
\* holds a service_name
StartsUnregisteredNamed(t) ==
    /\ StartsDeregister(t)
    /\ ~registered[owner[t]]
    /\ service_name[owner[t]] # None

\* C28 as stated: deregister_service() on a registry that is not registered
\* but holds a service_name still performs the catalog-deregistration step
\* before the count-others check.
C28_UnregisteredStillDeregisters ==
    [][\A t \in Tasks : StartsUnregisteredNamed(t) => pc'[t] = "d_dereg"]_vars

\* C28 amended: deregister_service() on a registry that is not registered
\* but holds a service_name makes no catalog-deregistration call, goes
\* straight to the count-others check with the conditional KV deletion, and
\* returns true.
C28_UnregisteredSkipsCatalogStep ==
    /\ [][\A t \in Tasks :
            StartsUnregisteredNamed(t)
               => /\ pc'[t] = "d_count"
                  /\ calls'[t] = <<>>
                  /\ loc'[t].service_deregistered]_vars
    /\ [](\A t \in Tasks :
            (pc[t] = "d_done" /\ loc[t].name # None /\ DeregAttempts(t) = {})
               => /\ ret[t]
                  /\ CountQueries(t) # {})

\* after a register_service() that returned false, deregister_service() made
\* no catalog call, counted no other instance, deleted the record and
\* returned true
C28_Witness ==
    \E t \in Tasks :
       /\ pc[t] = "d_done"
       /\ loc[t].name # None
       /\ DeregAttempts(t) = {}
       /\ "health_query" \in Range(calls[t])
       /\ "kv_delete" \in Range(calls[t])
       /\ ret[t]

\* C29: within one register_service() the KV get, the KV put and the catalog
\* register are each called at most once; within one deregister_service() a
\* health query that failed is followed by no other health query.
C29_NoOtherRetries ==
    \A t \in Tasks :
       /\ pc[t] \in {"r_get", "r_got", "r_put", "r_putted", "r_done"} =>
             /\ Cardinality(KvGets(t)) <= 1
             /\ CountOf(t, "kv_put") + CountOf(t, "kv_put_fail") <= 1
             /\ CountOf(t, "catalog_register") + CountOf(t, "catalog_register_raise") <= 1
       /\ InDeregister(t) =>
             \A k \in CountQueries(t) :
                calls[t][k] = "health_query_raise" => \A j \in CountQueries(t) : j <= k

\* the health query failed, was not repeated, and the call went on to the
\* KV cleanup
C29_Witness ==
    \E t \in Tasks :
       /\ pc[t] = "d_done"
       /\ CountOf(t, "health_query_raise") = 1
       /\ Cardinality(CountQueries(t)) = 1
       /\ KvGets(t) # {}

\* C21: stop() always terminates, even when the backend never answers a
\* deregistration call: the wait for deregister_service() ends with the
\* timeout, and the retry loops of the call make at most 3 attempts each.
C21_StopTerminates ==
    /\ [](\A t \in Tasks :
            InDeregister(t) =>
               /\ Cardinality(DeregAttempts(t)) <= 3
               /\ FailedKvAttempts(t) <= 3)
    /\ (svc.shutting_down ~> svc.st = "stopped")

\* the backend answered no call of the deregistration: the task was
\* cancelled at its first await and stop() has ended
C21_Witness ==
    /\ svc.st = "stopped"
    /\ pc[SvcTask] = "d_cancelled"
    /\ calls[SvcTask] = <<"cancelled">>
    /\ registered[owner[SvcTask]]

\* C22: if register_service() returns false during start(), startup is not
\* aborted: start() goes on to create and start the gRPC server, and a
\* start() that returned true has the gRPC server and the health task running.
C22_DegradedStart ==
    /\ [][(/\ svc.st = "st_register"
           /\ pc[SvcTask] = "r_done"
           /\ ~ret[SvcTask]
           /\ svc'.st # svc.st) => svc'.st = "st_grpc"]_vars
    /\ [](svc.st = "running" => (svc.grpc_server /\ svc.tasks))

\* start() has returned true although the registration failed
C22_Witness ==
    /\ svc.st = "running"
    /\ svc.consul_client
    /\ ~ret[SvcTask]
    /\ ~registered[owner[SvcTask]]
    /\ svc.grpc_server

\* C23: every backend call of the registry is executed on the worker pool,
\* never directly on the event loop.
C23_AllCallsOnWorkerPool ==
    \A t \in Tasks :
       \A k \in 1..Len(calls[t]) :
          calls[t][k] # "cancelled" => RunsInExecutor(calls[t][k])

\* C33: in every state of a registry, registered implies that service_id,
\* service_name and kv_path are set and kv_path is kv_base_path +
\* service_name; registered becomes true only in the step of a
\* register_service() whose catalog registration succeeds.
C33_RegisteredImpliesFields ==
    /\ [](\A r \in Regs :
            registered[r] =>
               /\ service_id[r] # NoId
               /\ service_name[r] # None
               /\ kv_path[r] = KvPath(service_name[r]))
    /\ [][\A r \in Regs :
            (~registered[r] /\ registered'[r]) =>
               \E t \in Tasks :
                  /\ owner[t] = r
                  /\ calls'[t] = Append(calls[t], "catalog_register")
                  /\ service_id'[r] \in catalog']_vars

\* a register_service() has just registered its instance
C33_Witness ==
    \E t \in Tasks :
       /\ pc[t] = "r_done"
       /\ "catalog_register" \in Range(calls[t])
       /\ registered[owner[t]]
       /\ service_id[owner[t]] \in catalog
       /\ kv_path[owner[t]] = KvPath(service_name[owner[t]])

\* C34: if register_service() returns true, with no other process deleting
\* keys, a KV record exists at kv_path when the call returns, also when the
\* KV put failed or was rejected.
C34_RegisteredHasKvRecord ==
    \A t \in Tasks :
       (pc[t] = "r_done" /\ ret[t] /\ calls[t] # <<>>)
          => kv_path[owner[t]] \in DOMAIN kv

\* C35: register_service() on a registered registry changes nothing:
\* registered, service_id, service_name and kv_path keep their values and no
\* backend call is made, also when another service_name is passed.
C35_RegisterAgainChangesNothing ==
    [][\A t \in Tasks :
         (StartsRegister(t) /\ registered[owner[t]])
            => /\ obj' = obj
               /\ backend' = backend
               /\ calls'[t] = <<>>
               /\ pc'[t] = "r_done"]_vars

\* a registry registered as svc.a was called again with svc.b and returned
\* at once, still holding svc.a
C35_Witness ==
    \E t \in Tasks :
       /\ pc[t] = "r_done"
       /\ calls[t] = <<>>
       /\ loc[t].name \in OtherNames
       /\ registered[owner[t]]
       /\ service_name[owner[t]] \in Names
       /\ kv_path[owner[t]] = KvPath(service_name[owner[t]])

\* the number of times phase p of stop() was started
Started(p) == Cardinality({i \in 1..Len(svc.log) : svc.log[i] = p})

\* C36: however many times stop() is called, one call after another or
\* overlapping, the Consul deregistration, the gRPC server stop and the
\* sender disconnect are each started at most once, and every call after
\* the first returns without acting.
C36_StopActsOnce ==
    /\ [](/\ Started("consul") <= 1
          /\ Started("grpc") <= 1
          /\ Started("sender") <= 1)
    /\ [][(svc.shutting_down /\ StopAgain)
            => /\ svc' = [svc EXCEPT !.returns = Append(@, svc.st)]
               /\ UNCHANGED <<obj, backend, pc, calls>>]_vars
    /\ [][(StartsDeregister(SvcTask) /\ svc.st = "s_wait")
            => Started("consul") = 1 /\ svc'.st = "s_wait"]_vars

\* stop() was called again while the first call waited for the
\* deregistration, and once more after the first call had finished
C36_Witness ==
    /\ svc.st = "stopped"
    /\ svc.returns = <<"s_wait", "stopped">>
    /\ Started("consul") = 1
    /\ Started("grpc") = 1
    /\ Started("sender") = 1

\* the string s is t followed by slashes only
SlashesAfter(s, t) ==
    /\ Len(t) <= Len(s)
    /\ SubSeq(s, 1, Len(t)) = t
    /\ \A k \in Len(t) + 1 .. Len(s) : s[k] = "/"

\* C31: for every base path and service name, the kv_path computed by
\* register_service() is the base path, one separator and the service name,
\* whether or not the configured base path ends with a slash.
C31_OneSeparator ==
    client.st = "named" =>
       \E stem \in Strings(MaxLen) :
          /\ SlashesAfter(client.base, stem)
          /\ stem = <<>> \/ stem[Len(stem)] # "/"
          /\ client.kv_path = stem \o <<"/">> \o client.service_name

\* base path "e/" and name "e" give "e/e"
C31_Witness ==
    /\ client.st = "named"
    /\ client.base = <<"e", "/">>
    /\ client.service_name = <<"e">>
    /\ client.kv_path = <<"e", "/", "e">>

\* C32 as stated: the reconnect branch of the health-check task never
\* triggers, whatever the health checks return.
C32_ReconnectNeverTriggers == hc.reconnects = 0

\* C32 amended: the reconnect branch triggers exactly when a health check
\* returns unhealthy with check_count, after the increment of the iteration,
\* equal to 3 (the third consecutive unhealthy result, or an unhealthy result
\* after one raising check); it marks the sender disconnected, and
\* check_count is back to 0 after connect(); between iterations check_count
\* is at most 2.
C32_ReconnectOnThirdFailure ==
    /\ [](/\ hc.pc = "sleep" => hc.check_count \in 0..2
          /\ hc.pc = "reconnect" => hc.check_count = 3 /\ ~hc.connected
          /\ (hc.pc \in {"sleep", "reconnect"}
               /\ hc.outcomes \in {<<"unhealthy", "unhealthy", "unhealthy">>,
                                   <<"raise", "unhealthy">>})
              => hc.reconnects = 1)
    /\ [][(/\ hc.pc = "check"
           /\ hc'.outcomes = Append(hc.outcomes, "unhealthy")
           /\ hc.check_count = 3)
          <=> hc'.reconnects = hc.reconnects + 1]_vars
    /\ [][(hc.pc = "reconnect" /\ hc'.pc = "sleep") => hc'.check_count = 0]_vars

\* three unhealthy results in a row have triggered the reconnect
C32_Witness ==
    /\ hc.outcomes = <<"unhealthy", "unhealthy", "unhealthy">>
    /\ hc.reconnects = 1
    /\ hc.pc = "sleep"
    /\ hc.check_count = 0

\* the call of the sender that has just returned went past connect()
SenderDone(op) ==
    snd.pc = "done" /\ snd.op = op /\ snd.how \in {"already", "reused", "rebuilt"}

\* C37: send_message() with valid arguments and an established connection
\* makes at most 3 send attempts, stops at the first successful one, returns
\* success exactly when an attempt succeeded, resets _error_count to 0 on
\* success and increases it by exactly 1 when all attempts fail.
C37_SendRetries ==
    /\ (snd.op = "send" => Len(snd.sends) <= 3)
    /\ (snd.op = "send" =>
           \A k \in 1..Len(snd.sends) - 1 : ~snd.sends[k].ok)
    /\ (SenderDone("send") =>
           /\ Len(snd.sends) >= 1
           /\ snd.result.success <=> \E k \in 1..Len(snd.sends) : snd.sends[k].ok
           /\ snd.result.success => snd.error_count = 0
           /\ ~snd.result.success =>
                 /\ Len(snd.sends) = 3
                 /\ snd.error_count = snd.error_before + 1)

\* a send_message() that failed before has now succeeded at its third attempt
C37_Witness ==
    /\ SenderDone("send")
    /\ snd.error_before = 1
    /\ Len(snd.sends) = 3
    /\ snd.sends[3].ok
    /\ snd.result.success
    /\ snd.error_count = 0

\* C38: after a failed send to a target that is not the last one of a
\* batch, the process-wide flag _global_connection_valid is false, as is
\* the _connected flag of the sender.
C38_BatchFailureInvalidatesShared ==
    (/\ snd.op = "batch"
     /\ snd.pc = "sb_send"
     /\ snd.sends # <<>>
     /\ ~snd.sends[Len(snd.sends)].ok)
       => ~snd.connected /\ ~snd.global_valid

\* C39 as stated: a batch makes exactly one send attempt per target.
C39_OneAttemptPerTarget ==
    (snd.pc = "done" /\ snd.op = "batch")
       => /\ Len(snd.sends) = Len(snd.targets)
          /\ snd.result.success_count + snd.result.failure_count
                = snd.result.total_count
          /\ snd.result.total_count = Len(snd.targets)
          /\ snd.result.success <=> snd.result.success_count > 0

\* C39 amended: the result of send_batch_messages() has success_count +
\* failure_count = total_count = len(target_ids) and success exactly when
\* success_count > 0; when connect() succeeds exactly one send attempt is
\* made per target in list order, and when it fails no attempt is made and
\* every target is counted as a failure.
C39_BatchResult ==
    (snd.pc = "done" /\ snd.op = "batch")
       => /\ snd.result.success_count + snd.result.failure_count
                = snd.result.total_count
          /\ snd.result.total_count = Len(snd.targets)
          /\ snd.result.success <=> snd.result.success_count > 0
          /\ IF snd.how = "failed"
             THEN /\ snd.sends = <<>>
                  /\ snd.result.failure_count = Len(snd.targets)
             ELSE /\ Len(snd.sends) = Len(snd.targets)
                  /\ \A k \in 1..Len(snd.sends) :
                        snd.sends[k].target = snd.targets[k]
                  /\ snd.result.success_count
                        = Cardinality({k \in 1..Len(snd.sends) : snd.sends[k].ok})

\* a batch of two targets whose first send failed and second succeeded
C39_Witness ==
    /\ SenderDone("batch")
    /\ snd.targets = <<"10001", "10002">>
    /\ Len(snd.sends) = 2
    /\ ~snd.sends[1].ok
    /\ snd.sends[2].ok
    /\ snd.result = [success |-> TRUE, total_count |-> 2,
                     success_count |-> 1, failure_count |-> 1]
====
